---- MODULE Spec2Model ----
(***************************************************************************)
(* A model of rustygrad's computation-graph engine (src/src/node.rs) and   *)
(* of the way its driver uses it (src/src/main.rs): the node arena, the    *)
(* edge map, the operator primitives and the backward traversal.           *)
(*                                                                         *)
(* Values and gradients are f64 in the source.  The model uses integers:   *)
(* every sum and product the model computes is an integer of small         *)
(* magnitude, which f64 represents and computes exactly.  powf is modelled *)
(* on the operand values for which a^b and b * a^(1-b) are integers        *)
(* (PowExact); the pow primitive is enabled on those operands only.        *)
(*                                                                         *)
(* Option<T> is a sequence of length at most one: None is <<>> and         *)
(* Some(x) is <<x>>.  A Vec is a sequence, indexed from 0 in the source    *)
(* and from 1 in the model (Vec index i is sequence index i + 1).          *)
(***************************************************************************)
EXTENDS Integers, Sequences, FiniteSets, TLC

VARIABLES
    nodes,            \* the arena: Vec<Node>
    map,              \* the edge map: HashMap<usize, [Option<usize>; 2]>
    OBJECT_COUNTER,   \* the process-wide id counter
    pc,               \* where the caller is: "idle", "loop" (inside backwards), "panicked"
    visited,          \* backwards' local HashSet
    deque,            \* backwards' local VecDeque
    ret,              \* the last call and what it returned
    runs,             \* history: the gradients at the start of each of the backward
                      \* runs made in a row since the graph was last touched
    log               \* history: the ids the current backward run has dequeued, in
                      \* order, each with whether it passed the visited test

vars == <<nodes, map, OBJECT_COUNTER, pc, visited, deque, ret, runs, log>>

---------------------------------------------------------------------------
(* Bounds of the model *)

MaxNodes == 3
MaxRuns == 2
LeafValues == {-1, 0, 2}
SeedValues == {1}
DiamondValues == -2 .. 3
\* the nodes created in other arenas of the same process
MaxElsewhere == 1
\* the integers of the range -1.0 .. 1.0 the weights and the bias are drawn from
WeightValues == {-1, 0}
\* count_in of main
CountIn == 2

---------------------------------------------------------------------------
(* Option, Vec and HashMap *)

None == <<>>
Some(x) == <<x>>
Unwrap(o) == o[1]

\* get, were an index out of range to yield a default node instead of None
get_lenient(ns, index) ==
    IF index \in 0 .. (Len(ns) - 1)
    THEN Some(ns[index + 1])
    ELSE Some([id |-> 0, value |-> 0, gradient |-> 0, operator |-> "None"])

\* Vec::get: the element at a 0-based index, None when out of range
get(ns, index) == IF index \in 0 .. (Len(ns) - 1) THEN Some(ns[index + 1]) ELSE None

\* insert, were it to drop the records the map already holds
insert_alone(m, k, v) == [x \in {k} |-> v]

\* contains, were it to find nothing
contains_nothing(set, x) == FALSE

\* HashSet::contains
contains(set, x) == x \in set

\* HashMap::insert
insert(m, k, v) == [x \in (DOMAIN m) \cup {k} |-> IF x = k THEN v ELSE m[x]]

---------------------------------------------------------------------------
(* Node *)

Operators == {"None", "Plus", "Mul", "Pow", "Relu"}

Node_new(value, operator) ==
    [id |-> OBJECT_COUNTER, value |-> value, gradient |-> 0, operator |-> operator]

\* the return record of a call: result is None when the call panicked
Returned(call, args, result) == [call |-> call, args |-> args, result |-> result]

panic(call) ==
    /\ pc' = "panicked"
    /\ ret' = Returned(call, <<>>, None)
    /\ UNCHANGED <<nodes, map, OBJECT_COUNTER, visited, deque, runs, log>>

\* append_node, were the counter read and not advanced
append_node_stale(value, operator) ==
    /\ nodes' = Append(nodes, Node_new(value, operator))
    /\ OBJECT_COUNTER' = OBJECT_COUNTER

\* nodes.push(Node::new(value, operator)); the id of nodes.last()
append_node(value, operator) ==
    /\ nodes' = Append(nodes, Node_new(value, operator))
    /\ OBJECT_COUNTER' = OBJECT_COUNTER + 1

new_node(value) ==
    /\ pc = "idle"
    /\ append_node(value, "None")
    /\ ret' = Returned("new_node", <<value>>, Some(<<nodes'[Len(nodes')].id, value>>))
    /\ runs' = <<>>
    /\ UNCHANGED <<map, pc, visited, deque, log>>

---------------------------------------------------------------------------
(* Forward values *)

RECURSIVE IPow(_, _)
IPow(a, n) == IF n <= 0 THEN 1 ELSE a * IPow(a, n - 1)

Abs(x) == IF x < 0 THEN -x ELSE x

\* the operand values on which powf and the Pow rule stay within the integers:
\* a^b is an integer for b >= 0, and b * a^(1-b) is one when b <= 1 or when
\* a^(b-1) divides b, which for b >= 2 means |a| = 1, or |a| = 2 and b = 2
PowExact(a, b) ==
    /\ b >= 0
    /\ b >= 2 => (Abs(a) = 1 \/ (Abs(a) = 2 /\ b = 2))

add_value(a, b) == a + b
mul_value(a, b) == a * b
pow_value(a, b) == IPow(a, b)
\* relu_value, were the comparison with 0.0 left out
relu_value_identity(a) == a

relu_value(a) == IF a > 0 THEN a ELSE 0

---------------------------------------------------------------------------
(* Operator primitives *)

\* extend2, were map.insert left out
extend2_no_record(call, operator, value, index_self, index_other) ==
    /\ append_node(value, operator)
    /\ ret' = Returned(call, <<index_self, index_other>>,
                       Some(<<nodes'[Len(nodes')].id, value>>))
    /\ runs' = <<>>
    /\ UNCHANGED <<map, pc, visited, deque, log>>

\* the tail shared by add, mul and pow once both operands are unwrapped:
\* append the node, insert its edge record, return (node_id, value)
extend2(call, operator, value, index_self, index_other) ==
    /\ append_node(value, operator)
    /\ LET node_id == nodes'[Len(nodes')].id
       IN /\ map' = insert(map, node_id, <<Some(index_self), Some(index_other)>>)
          /\ ret' = Returned(call, <<index_self, index_other>>, Some(<<node_id, value>>))
    /\ runs' = <<>>
    /\ UNCHANGED <<pc, visited, deque, log>>

add(index_self, index_other) ==
    /\ pc = "idle"
    /\ LET a == get(nodes, index_self)
           b == get(nodes, index_other)
       IN IF a = None \/ b = None
          THEN panic("add")
          ELSE extend2("add", "Plus", add_value(Unwrap(a).value, Unwrap(b).value),
                       index_self, index_other)

mul(index_self, index_other) ==
    /\ pc = "idle"
    /\ LET a == get(nodes, index_self)
           b == get(nodes, index_other)
       IN IF a = None \/ b = None
          THEN panic("mul")
          ELSE extend2("mul", "Mul", mul_value(Unwrap(a).value, Unwrap(b).value),
                       index_self, index_other)

pow(index_self, index_other) ==
    /\ pc = "idle"
    /\ LET a == get(nodes, index_self)
           b == get(nodes, index_other)
       IN IF a = None \/ b = None
          THEN panic("pow")
          ELSE /\ PowExact(Unwrap(a).value, Unwrap(b).value)
               /\ extend2("pow", "Pow", pow_value(Unwrap(a).value, Unwrap(b).value),
                          index_self, index_other)

relu(index_self) ==
    /\ pc = "idle"
    /\ LET a == get(nodes, index_self)
       IN IF a = None
          THEN panic("relu")
          ELSE LET value == relu_value(Unwrap(a).value)
               IN /\ append_node(value, "Relu")
                  /\ LET node_id == nodes'[Len(nodes')].id
                     IN /\ map' = insert(map, node_id, <<Some(index_self), None>>)
                        /\ ret' = Returned("relu", <<index_self>>, Some(<<node_id, value>>))
                  /\ runs' = <<>>
                  /\ UNCHANGED <<pc, visited, deque, log>>

\* the driver's seeding, nodes[index].gradient = seed, of a graph that holds no
\* gradient yet; indexing past the end of the Vec panics
set_gradient(index, seed) ==
    /\ pc = "idle"
    /\ \A k \in 1 .. Len(nodes) : nodes[k].gradient = 0
    /\ IF index \in 0 .. (Len(nodes) - 1)
       THEN /\ nodes' = [nodes EXCEPT ![index + 1].gradient = seed]
            /\ ret' = Returned("set_gradient", <<index, seed>>, Some(<<index, seed>>))
            /\ runs' = <<>>
            /\ UNCHANGED <<map, OBJECT_COUNTER, pc, visited, deque, log>>
       ELSE panic("set_gradient")

---------------------------------------------------------------------------
(* Backward traversal *)

\* the positions of the two children, or a panic: the assertion y > x,
\* split_at_mut(y) past the end, or an index past the end
get_child_nodes(ns, index_a, index_b) ==
    IF index_a /= None /\ index_b /= None
    THEN LET x == Unwrap(index_a)
             y == Unwrap(index_b)
         IN IF y > x /\ y < Len(ns)
            THEN [panic |-> FALSE, children |-> <<Some(x), Some(y)>>]
            ELSE [panic |-> TRUE, children |-> <<None, None>>]
    ELSE IF index_a /= None
    THEN LET x == Unwrap(index_a)
         IN IF x < Len(ns)
            THEN [panic |-> FALSE, children |-> <<Some(x), None>>]
            ELSE [panic |-> TRUE, children |-> <<None, None>>]
    ELSE [panic |-> FALSE, children |-> <<None, None>>]

\* add_gradient, were += written =
add_gradient_assign(ns, index, delta) ==
    [ns EXCEPT ![index + 1].gradient = delta]

\* node.gradient += delta, for the node at a 0-based position
add_gradient(ns, index, delta) ==
    [ns EXCEPT ![index + 1].gradient = @ + delta]

plus_rule(ns, x, y, node_clone) ==
    add_gradient(add_gradient(ns, x, node_clone.gradient), y, node_clone.gradient)

\* mul_rule, were each operand given its own value instead of the other's
mul_rule_own(ns, x, y, node_clone) ==
    LET after_self == add_gradient(ns, x, ns[x + 1].value * node_clone.gradient)
    IN add_gradient(after_self, y, after_self[y + 1].value * node_clone.gradient)

mul_rule(ns, x, y, node_clone) ==
    LET after_self == add_gradient(ns, x, ns[y + 1].value * node_clone.gradient)
    IN add_gradient(after_self, y, after_self[x + 1].value * node_clone.gradient)

\* pow_factor, were the exponent the power rule's b - 1
pow_factor_standard(a, b) == b * IPow(a, b - 1)

\* other.value * self.value.powf(1.0 - other.value), exact under PowExact
pow_factor(a, b) ==
    IF 1 - b >= 0
    THEN b * IPow(a, 1 - b)
    ELSE LET d == IPow(a, b - 1)
         IN IF d < 0 THEN -(b \div (-d)) ELSE b \div d

pow_rule(ns, x, y, node_clone) ==
    add_gradient(ns, x, pow_factor(ns[x + 1].value, ns[y + 1].value) * node_clone.gradient)

\* relu_rule, were the test of the output value left out
relu_rule_always(ns, x, node_clone) == add_gradient(ns, x, node_clone.gradient)

relu_rule(ns, x, node_clone) ==
    IF node_clone.value > 0 THEN add_gradient(ns, x, node_clone.gradient) ELSE ns

\* match &node_clone.operator, in the arm of two children
rule2(ns, x, y, node_clone) ==
    CASE node_clone.operator = "Plus" -> plus_rule(ns, x, y, node_clone)
      [] node_clone.operator = "Mul" -> mul_rule(ns, x, y, node_clone)
      [] node_clone.operator = "Pow" -> pow_rule(ns, x, y, node_clone)
      [] OTHER -> ns

\* match &node_clone.operator, in the arm of one child
rule1(ns, x, node_clone) ==
    CASE node_clone.operator = "Relu" -> relu_rule(ns, x, node_clone)
      [] OTHER -> ns

\* the node the traversal starts at
start_node(ns) == ns[Len(ns)]

\* lines 216-220: the locals, and the start node's id on the deque
backwards_begin ==
    /\ pc = "idle"
    /\ Len(runs) < MaxRuns
    /\ IF nodes = <<>>
       THEN panic("backwards")
       ELSE /\ visited' = {}
            /\ deque' = <<start_node(nodes).id>>
            /\ pc' = "loop"
            /\ runs' = Append(runs, [k \in 1 .. Len(nodes) |-> nodes[k].gradient])
            /\ ret' = Returned("backwards", <<>>, None)
            /\ log' = <<>>
            /\ UNCHANGED <<nodes, map, OBJECT_COUNTER>>

\* one iteration of the while loop
backwards_step ==
    /\ pc = "loop"
    /\ deque /= <<>>
    /\ LET node_id == Head(deque)
           rest == Tail(deque)
       IN IF get(nodes, node_id) = None
          THEN panic("backwards")
          ELSE LET node_clone == nodes[node_id + 1]
               IN IF contains(visited, node_clone.id)
                  THEN /\ deque' = rest
                       /\ log' = Append(log, [id |-> node_clone.id, fresh |-> FALSE])
                       /\ UNCHANGED <<nodes, map, OBJECT_COUNTER, pc, visited, ret, runs>>
                  ELSE IF node_clone.id \notin DOMAIN map
                  THEN /\ visited' = visited \cup {node_clone.id}
                       /\ deque' = rest
                       /\ log' = Append(log, [id |-> node_clone.id, fresh |-> TRUE])
                       /\ UNCHANGED <<nodes, map, OBJECT_COUNTER, pc, ret, runs>>
                  ELSE LET child_nodes == map[node_clone.id]
                           got == get_child_nodes(nodes, child_nodes[1], child_nodes[2])
                           self == got.children[1]
                           other == got.children[2]
                       IN IF got.panic
                          THEN panic("backwards")
                          ELSE /\ visited' = visited \cup {node_clone.id}
                               /\ log' = Append(log, [id |-> node_clone.id, fresh |-> TRUE])
                               /\ IF self /= None /\ other /= None
                                  THEN /\ deque' = rest \o <<nodes[Unwrap(self) + 1].id,
                                                            nodes[Unwrap(other) + 1].id>>
                                       /\ nodes' = rule2(nodes, Unwrap(self), Unwrap(other),
                                                         node_clone)
                                  ELSE IF self /= None
                                  THEN /\ deque' = rest \o <<nodes[Unwrap(self) + 1].id>>
                                       /\ nodes' = rule1(nodes, Unwrap(self), node_clone)
                                  ELSE /\ deque' = rest
                                       /\ nodes' = nodes
                               /\ UNCHANGED <<map, OBJECT_COUNTER, pc, ret, runs>>

\* the deque is empty: the loop ends and backwards returns
backwards_return ==
    /\ pc = "loop"
    /\ deque = <<>>
    /\ pc' = "idle"
    /\ ret' = Returned("backwards", <<>>, Some(<<>>))
    /\ UNCHANGED <<nodes, map, OBJECT_COUNTER, visited, deque, runs, log>>

---------------------------------------------------------------------------
(* The program: one arena, one edge map, a caller that makes any call *)

Init ==
    /\ nodes = <<>>
    /\ map = <<>>
    /\ OBJECT_COUNTER = 0
    /\ pc = "idle"
    /\ visited = {}
    /\ deque = <<>>
    /\ ret = Returned("main", <<>>, None)
    /\ runs = <<>>
    /\ log = <<>>

\* the indexes a caller passes: every node of the arena, and one index past it
Indexes == 0 .. Len(nodes)

\* the caller stops extending an arena of MaxNodes nodes
Room == Len(nodes) < MaxNodes

NewNode == Room /\ \E value \in LeafValues : new_node(value)
Add == Room /\ \E i, j \in Indexes : add(i, j)
Mul == Room /\ \E i, j \in Indexes : mul(i, j)
Pow == Room /\ \E i, j \in Indexes : pow(i, j)
Relu == Room /\ \E i \in Indexes : relu(i)
SetGradient == \E i \in Indexes, seed \in SeedValues : set_gradient(i, seed)

Next ==
    \/ NewNode
    \/ Add
    \/ Mul
    \/ Pow
    \/ Relu
    \/ SetGradient
    \/ backwards_begin
    \/ backwards_step
    \/ backwards_return

Spec == Init /\ [][Next]_vars

\* backwards is a synchronous loop on one thread: once entered, its next
\* iteration, or its return, is always taken
FairSpec == Spec /\ WF_vars(backwards_step) /\ WF_vars(backwards_return)

---------------------------------------------------------------------------
(* The program whose caller builds the diamond of leaves a and b:           *)
(* c = add(a, b), d = mul(a, b), e = add(c, d), with a created before b     *)

DiamondLeaf == Len(nodes) < 2 /\ \E value \in DiamondValues : new_node(value)
DiamondAdd == (Len(nodes) = 2 /\ add(0, 1)) \/ (Len(nodes) = 4 /\ add(2, 3))
DiamondMul == Len(nodes) = 3 /\ mul(0, 1)

NextDiamond ==
    \/ DiamondLeaf
    \/ DiamondAdd
    \/ DiamondMul
    \/ SetGradient
    \/ backwards_begin
    \/ backwards_step
    \/ backwards_return

SpecDiamond == Init /\ [][NextDiamond]_vars

---------------------------------------------------------------------------
(* The program whose caller builds two paths of different lengths from one  *)
(* node: w leaf, x = relu(w), y = relu(x), z = add(x, y) or mul(x, y)       *)

SkewLeaf == Len(nodes) = 0 /\ \E value \in DiamondValues : new_node(value)
SkewRelu == (Len(nodes) = 1 /\ relu(0)) \/ (Len(nodes) = 2 /\ relu(1))
SkewJoin == Len(nodes) = 3 /\ (add(1, 2) \/ mul(1, 2))

NextSkew ==
    \/ SkewLeaf
    \/ SkewRelu
    \/ SkewJoin
    \/ SetGradient
    \/ backwards_begin
    \/ backwards_step
    \/ backwards_return

SpecSkew == Init /\ [][NextSkew]_vars

---------------------------------------------------------------------------
(* The program whose caller, who owns the edge map, also writes a record    *)
(* into it by hand, once, on a graph of two leaves and one operator node    *)

\* how many operands a record holds
Arity(rec) == Cardinality({i \in {1, 2} : rec[i] /= None})

\* how many operands the operator tag stands for
ArityOfOperator(operator) ==
    CASE operator = "None" -> 0
      [] operator = "Relu" -> 1
      [] OTHER -> 2

\* the node with this id has a record whose arity its operator tag does not have
Mismatched(id) ==
    /\ id \in DOMAIN map
    /\ \E k \in 1 .. Len(nodes) :
         /\ nodes[k].id = id
         /\ (Arity(map[id]) /= ArityOfOperator(nodes[k].operator) \/ map[id][1] = None)

\* the records a caller writes: one operand, or two
HandRecords ==
    {<<Some(i), None>> : i \in 0 .. (Len(nodes) - 1)}
        \cup {<<Some(i), Some(j)>> : i, j \in 0 .. (Len(nodes) - 1)}

\* map.insert(id, rec), made by the caller
caller_insert(id, rec) ==
    /\ pc = "idle"
    /\ map' = insert(map, id, rec)
    /\ ret' = Returned("insert", <<id>>, Some(<<id>>))
    /\ runs' = <<>>
    /\ UNCHANGED <<nodes, OBJECT_COUNTER, pc, visited, deque, log>>

HandLeaf == Len(nodes) < 2 /\ \E value \in LeafValues : new_node(value)
HandOperator ==
    /\ Len(nodes) = 2
    /\ (relu(0) \/ relu(1) \/ add(0, 1) \/ mul(0, 1) \/ pow(0, 1))
HandInsert ==
    /\ Len(nodes) = 3
    /\ runs = <<>>
    /\ \A id \in DOMAIN map : ~Mismatched(id)
    /\ \E id \in 0 .. 2, rec \in HandRecords : caller_insert(id, rec)

NextHand ==
    \/ HandLeaf
    \/ HandOperator
    \/ HandInsert
    \/ SetGradient
    \/ backwards_begin
    \/ backwards_step
    \/ backwards_return

SpecHand == Init /\ [][NextHand]_vars

---------------------------------------------------------------------------
(* The program in a process that builds other arenas too: their nodes take  *)
(* their ids from the same OBJECT_COUNTER                                   *)

\* new_node(other, value) on another Vec<Node>: only the counter is shared
new_node_elsewhere ==
    /\ pc = "idle"
    /\ OBJECT_COUNTER - Len(nodes) < MaxElsewhere
    /\ OBJECT_COUNTER' = OBJECT_COUNTER + 1
    /\ ret' = Returned("new_node", <<>>, Some(<<OBJECT_COUNTER>>))
    /\ UNCHANGED <<nodes, map, pc, visited, deque, runs, log>>

NextArenas == Next \/ new_node_elsewhere

SpecArenas == Init /\ [][NextArenas]_vars

---------------------------------------------------------------------------
(* main: CountIn inputs, a Layer of one Neuron, its connection, the seed at *)
(* the output and the backward pass; the arena is laid out as the inputs,   *)
(* the weights, the bias, the products, the sum and the output              *)

\* x, the indexes of the inputs
Inputs == [i \in 1 .. CountIn |-> i - 1]
\* Neuron.weights and Neuron.bias
Weights == [i \in 1 .. CountIn |-> CountIn + i - 1]
Bias == 2 * CountIn
\* the nodes of the products x[i] * weights[i], and the output of connect
Products == [i \in 1 .. CountIn |-> 2 * CountIn + i]
Output == 3 * CountIn + 2

\* the id in the (node_id, value) pair the last call returned
LastReturned == Unwrap(ret.result)[1]

\* inputs.push(new_node(nodes, value))
MainInput == Len(nodes) < CountIn /\ \E value \in LeafValues : new_node(value)

\* Neuron::new: count_in weight nodes, then the bias node
Neuron_new ==
    /\ Len(nodes) \in CountIn .. (2 * CountIn)
    /\ \E value \in WeightValues : new_node(value)

\* Neuron::connect: the products in turn, of which .last() keeps the id of the
\* last one only, then add(bias, last_index) and relu(sum)
Neuron_connect ==
    \/ \E i \in 1 .. CountIn :
         /\ Len(nodes) = 2 * CountIn + i
         /\ mul(Inputs[i], Weights[i])
    \/ /\ Len(nodes) = 3 * CountIn + 1
       /\ add(Bias, LastReturned)
    \/ /\ Len(nodes) = 3 * CountIn + 2
       /\ relu(LastReturned)

\* nodes[final_layer[0]].gradient = 1.0
MainSeed == Len(nodes) = 3 * CountIn + 3 /\ \E seed \in SeedValues : set_gradient(Output, seed)

\* node::backwards(&mut map, &mut nodes)
MainBackwards == Len(nodes) = 3 * CountIn + 3 /\ backwards_begin

NextNeuron ==
    \/ MainInput
    \/ Neuron_new
    \/ Neuron_connect
    \/ MainSeed
    \/ MainBackwards
    \/ backwards_step
    \/ backwards_return

SpecNeuron == Init /\ [][NextNeuron]_vars

---------------------------------------------------------------------------
(* What the claims speak of *)

\* the 0-based positions of the arena
Positions == 0 .. (Len(nodes) - 1)

\* the node at a 0-based position
At(index) == nodes[index + 1]

\* a gradient vector that is 1.0 at one position and 0.0 everywhere else
SeededAt(g, index) ==
    /\ index + 1 \in DOMAIN g
    /\ g[index + 1] = 1
    /\ \A k \in DOMAIN g : k /= index + 1 => g[k] = 0

\* the last position of the arena, where the node created last sits
LastPos == Len(nodes) - 1

\* the node created last is the result of operator on the operands of rec
LastIs(operator, rec) ==
    /\ nodes /= <<>>
    /\ At(LastPos).operator = operator
    /\ At(LastPos).id \in DOMAIN map
    /\ map[At(LastPos).id] = rec

\* a first backward run on a graph that was seeded at its last node has ended,
\* by returning or by panicking
FirstRunEnded ==
    /\ ret.call = "backwards"
    /\ pc \in {"idle", "panicked"}
    /\ Len(runs) = 1
    /\ SeededAt(runs[1], LastPos)

FirstRunReturned == FirstRunEnded /\ pc = "idle"

\* the arena holds the diamond over the leaves at positions 0 and 1
IsDiamond ==
    /\ Len(nodes) = 5
    /\ At(0).operator = "None" /\ At(1).operator = "None"
    /\ At(2).operator = "Plus" /\ At(3).operator = "Mul" /\ At(4).operator = "Plus"
    /\ DOMAIN map = {2, 3, 4}
    /\ map[2] = <<Some(0), Some(1)>>
    /\ map[3] = <<Some(0), Some(1)>>
    /\ map[4] = <<Some(2), Some(3)>>

---------------------------------------------------------------------------
C2_MulGradients ==
    \A a, b \in Positions :
        (FirstRunEnded /\ a /= b /\ LastIs("Mul", <<Some(a), Some(b)>>)) =>
            /\ At(a).gradient = At(b).value
            /\ At(b).gradient = At(a).value

(* C3: for every two distinct nodes a and b, in either operand order: after *)
(* z = add(a, b), the seed 1.0 at z alone and a backward run, a.gradient    *)
(* and b.gradient are both exactly 1.0.                                     *)
C3_AddGradients ==
    \A a, b \in Positions :
        (FirstRunEnded /\ a /= b /\ LastIs("Plus", <<Some(a), Some(b)>>)) =>
            /\ At(a).gradient = 1
            /\ At(b).gradient = 1

(* C4: for every node x: after z = relu(x), the seed 1.0 at z alone and a   *)
(* backward run, x.gradient is 1.0 when x.value > 0 and 0.0 when            *)
(* x.value <= 0.                                                            *)
C4_ReluGradient ==
    \A x \in Positions :
        (FirstRunEnded /\ LastIs("Relu", <<Some(x), None>>)) =>
            At(x).gradient = (IF At(x).value > 0 THEN 1 ELSE 0)

C4_Witness ==
    /\ FirstRunReturned
    /\ \E x \in Positions :
        /\ LastIs("Relu", <<Some(x), None>>)
        /\ At(x).value > 0
        /\ At(x).gradient = 1
        /\ At(x).operator = "Relu"

C4_WitnessNonPositive ==
    /\ FirstRunReturned
    /\ \E x \in Positions :
        /\ LastIs("Relu", <<Some(x), None>>)
        /\ At(x).value <= 0
        /\ At(x).gradient = 0

(* C5: add, mul and relu each create a node whose stored value is the      *)
(* operator's forward value of the operands' values at the call, and return *)
(* the stored value of the node whose id they return.                       *)
NodesWithId(id) == {k \in Positions : At(k).id = id}

ForwardValue(call, args) ==
    CASE call = "add" -> At(args[1]).value + At(args[2]).value
      [] call = "mul" -> At(args[1]).value * At(args[2]).value
      [] call = "relu" -> IF At(args[1]).value > 0 THEN At(args[1]).value ELSE 0

C5_ForwardValues ==
    (ret.call \in {"add", "mul", "relu"} /\ ret.result /= None) =>
        LET node_id == Unwrap(ret.result)[1]
            value == Unwrap(ret.result)[2]
        IN /\ NodesWithId(node_id) /= {}
           /\ \A k \in NodesWithId(node_id) :
                /\ At(k).value = ForwardValue(ret.call, ret.args)
                /\ At(k).value = value
                /\ k = LastPos

C5_Witness ==
    /\ ret.call = "mul"
    /\ ret.args = <<0, 1>>
    /\ ret.result = Some(<<2, -2>>)
    /\ At(0).value = 2
    /\ At(1).value = -1
    /\ At(2).value = -2
    /\ At(2).operator = "Mul"

---------------------------------------------------------------------------
\* the operand positions an edge record holds
Operands(id) ==
    IF id \in DOMAIN map
    THEN {Unwrap(o) : o \in {map[id][1], map[id][2]} \ {None}}
    ELSE {}

\* a second backward run has returned, made right after the first one on a graph
\* that was seeded at its last node: runs[2] holds the gradients after the first
SecondRunReturned ==
    /\ ret.call = "backwards"
    /\ pc = "idle"
    /\ Len(runs) = 2
    /\ SeededAt(runs[1], LastPos)

\* the nodes the first run pushed a contribution to: the operands of the nodes
\* it processed (the second run processes the same nodes)
Contributed == UNION {Operands(id) : id \in visited}

(* C6: a second backward run on the same seeded graph, with no gradient     *)
(* reset in between, doubles all gradients: every node that received a      *)
(* contribution in the first run holds exactly twice its gradient of after  *)
(* the first run, for graphs of any depth.                                  *)
C6_SecondRunDoublesAll ==
    SecondRunReturned =>
        \A k \in Contributed : At(k).gradient = 2 * runs[2][k + 1]

(* C6 as amended: the second run doubles the gradient of every operand of   *)
(* the start node that no other node reached by the traversal has as an     *)
(* operand; a node deeper in the graph may end with more than twice its     *)
(* gradient (three times, for x in relu(relu(x)) with x > 0).               *)
OnlyBelowStart(k) ==
    /\ k \in Operands(At(LastPos).id)
    /\ \A id \in visited : id /= At(LastPos).id => k \notin Operands(id)

C6_SecondRunDoublesOperandsOfStart ==
    SecondRunReturned =>
        /\ At(LastPos).gradient = runs[2][LastPos + 1]
        /\ \A k \in Positions :
             OnlyBelowStart(k) => At(k).gradient = 2 * runs[2][k + 1]

C6_Witness ==
    /\ SecondRunReturned
    /\ LastIs("Mul", <<Some(0), Some(1)>>)
    /\ OnlyBelowStart(0) /\ OnlyBelowStart(1)
    /\ runs[2] = <<-1, 2, 1>>
    /\ At(0).gradient = -2
    /\ At(1).gradient = 4

(* C7: backward propagates from the seed node: for any node s whose         *)
(* gradient was set (all others 0), whichever node of the arena s is, the   *)
(* traversal starts at s and processes every ancestor of s reachable        *)
(* through recorded edges.                                                  *)
RECURSIVE AncestorsWithin(_, _)
AncestorsWithin(ids, fuel) ==
    IF fuel = 0
    THEN ids
    ELSE AncestorsWithin(ids \cup UNION {Operands(id) : id \in ids}, fuel - 1)

Ancestors(s) == AncestorsWithin({s}, Len(nodes))

C7_StartsAtSeed ==
    \A s \in Positions :
        (ret.call = "backwards" /\ Len(runs) = 1 /\ SeededAt(runs[1], s)) =>
            /\ (pc = "loop" /\ visited = {}) => deque = <<At(s).id>>
            /\ pc = "idle" => Ancestors(s) \subseteq visited

(* C8: node ids are unique and strictly increasing in creation order: each  *)
(* node's id is greater than the id of every node created before it.        *)
C8_IdsIncrease ==
    \A i, j \in Positions : i < j => At(i).id < At(j).id

C8_Witness ==
    /\ Len(nodes) = 3
    /\ At(0).operator = "None"
    /\ At(1).operator = "Relu"
    /\ At(2).operator = "Plus"
    /\ At(0).id < At(1).id /\ At(1).id < At(2).id

---------------------------------------------------------------------------
\* an index that names no node of the arena
Absent(index) == index \notin Positions

\* a call of an operator primitive with an absent operand
CallWithAbsentOperand ==
    \/ \E i, j \in Indexes : (Absent(i) \/ Absent(j)) /\ (add(i, j) \/ mul(i, j) \/ pow(i, j))
    \/ \E i \in Indexes : Absent(i) /\ relu(i)

(* C9: add, mul, pow or relu called with an operand id that is not in the   *)
(* arena fails, returning no node id, and leaves the graph unchanged: no    *)
(* node is appended and no edge record is inserted.                         *)
C9_AbsentOperandFails ==
    [][CallWithAbsentOperand =>
         /\ pc' = "panicked"
         /\ ret'.result = None
         /\ nodes' = nodes
         /\ map' = map]_vars

C9_Witness ==
    /\ pc = "panicked"
    /\ ret.call = "pow"
    /\ Len(nodes) = 2
    /\ DOMAIN map = {1}

\* a call of an operator primitive that returned
OperatorReturns == (Add \/ Mul \/ Pow \/ Relu) /\ pc' = "idle"

\* the arena grew by one node at its end and kept every node it held
AppendsOneNode ==
    /\ Len(nodes') = Len(nodes) + 1
    /\ SubSeq(nodes', 1, Len(nodes)) = nodes

\* the edge map gained the record of the new node and kept every record it held
InsertsOneRecord ==
    /\ DOMAIN map' = (DOMAIN map) \cup {nodes'[Len(nodes')].id}
    /\ nodes'[Len(nodes')].id \notin DOMAIN map
    /\ \A id \in DOMAIN map : map'[id] = map[id]

\* a step of backwards
BackwardsSteps == backwards_begin \/ backwards_step \/ backwards_return

\* nothing but gradients differs between the arena before and after
OnlyGradientsChange ==
    /\ Len(nodes') = Len(nodes)
    /\ \A k \in 1 .. Len(nodes) :
         /\ nodes'[k].id = nodes[k].id
         /\ nodes'[k].value = nodes[k].value
         /\ nodes'[k].operator = nodes[k].operator

(* C10: leaf creation appends exactly one node, an operator primitive       *)
(* appends exactly one node and inserts exactly one edge record keyed by    *)
(* the new id, and both leave every existing node (its gradient too) and    *)
(* every existing edge record unchanged; backward leaves the number of      *)
(* nodes, every node's id, value and operator, and the whole edge map       *)
(* unchanged.                                                               *)
C10_Frame ==
    [][/\ NewNode => (AppendsOneNode /\ map' = map)
       /\ OperatorReturns => (AppendsOneNode /\ InsertsOneRecord)
       /\ BackwardsSteps => (OnlyGradientsChange /\ map' = map)]_vars

C10_Witness ==
    /\ ret.call = "add"
    /\ ret.result /= None
    /\ Len(nodes) = 3
    /\ At(0).gradient = 1
    /\ At(1).gradient = 1
    /\ At(2).gradient = 0
    /\ At(1).operator = "Relu"
    /\ DOMAIN map = {1, 2}

---------------------------------------------------------------------------
\* this step of backwards applies the operator rule of the node with this id:
\* the node is dequeued, passes the visited test and its children are fetched
Processes(id) ==
    /\ backwards_step
    /\ pc' = "loop"
    /\ Len(log') = Len(log) + 1
    /\ log'[Len(log')] = [id |-> id, fresh |-> TRUE]

\* the node with this id, which backwards reaches as nodes[id]
ById(id) == nodes[id + 1]

(* C11: when backward processes a Pow node z = pow(a, b), it adds           *)
(* b.value * a.value^(1 - b.value) * z.gradient to a's gradient and leaves  *)
(* b's gradient unchanged.  The added amount d is stated without a negative *)
(* power: d = 0 for b = 0, and d * a^(b-1) = b * z.gradient for b >= 1.     *)
C11_PowRule ==
    [][\A z \in DOMAIN map, a, b \in Positions :
         (/\ Processes(z)
          /\ ById(z).operator = "Pow"
          /\ map[z] = <<Some(a), Some(b)>>) =>
            LET d == nodes'[a + 1].gradient - nodes[a + 1].gradient
                av == nodes[a + 1].value
                bv == nodes[b + 1].value
            IN /\ bv = 0 => d = 0
               /\ bv >= 1 => d * IPow(av, bv - 1) = bv * ById(z).gradient
               /\ nodes'[b + 1].gradient = nodes[b + 1].gradient]_vars

C11_Witness ==
    /\ pc = "loop"
    /\ Len(log) = 1
    /\ LastIs("Pow", <<Some(0), Some(1)>>)
    /\ At(0).value = 2 /\ At(1).value = 2
    /\ At(2).value = 4 /\ At(2).gradient = 1
    /\ At(0).gradient = 1
    /\ At(1).gradient = 0

---------------------------------------------------------------------------
\* the ids of the nodes the traversal can reach from its start node
Reachable == Ancestors(At(LastPos).id)

\* the ids of the reachable nodes that have the node with this id as an operand
ParentsOf(id) == {p \in Reachable : \E k \in Operands(p) : At(k).id = id}

(* C12: backward visits nodes in reverse-topological order: whenever the    *)
(* operator rule of a node n is applied, every node reachable from the      *)
(* start node that has n as an operand has been processed already.          *)
C12_ReverseTopological ==
    [][\A n \in DOMAIN map :
         Processes(n) => \A p \in ParentsOf(n) : p \in visited]_vars

---------------------------------------------------------------------------
\* how many times the current run applied the rule of the node with this id
TimesProcessed(id) ==
    Cardinality({i \in 1 .. Len(log) : log[i] = [id |-> id, fresh |-> TRUE]})

\* a backward run on a non-empty arena has ended, by returning or by panicking
RunEnded ==
    /\ ret.call = "backwards"
    /\ pc \in {"idle", "panicked"}
    /\ nodes /= <<>>

(* C13: in one backward run each node's operator rule is applied at most    *)
(* once, and exactly once for the start node and for every non-leaf node    *)
(* reachable from it, even when the same id is enqueued several times.      *)
C13_ExactlyOnce ==
    /\ \A id \in 0 .. OBJECT_COUNTER : TimesProcessed(id) <= 1
    /\ RunEnded =>
         \A id \in Reachable :
            (id = At(LastPos).id \/ id \in DOMAIN map) => TimesProcessed(id) = 1

(* C14: arena and edge map stay in lock-step: an id has an edge record if   *)
(* and only if its node's operator is not None; the record of a Relu node   *)
(* has exactly one present operand, the left one; the record of a Plus, Mul *)
(* or Pow node has exactly two; a leaf has no record.                       *)
C14_LockStep ==
    /\ DOMAIN map \subseteq {At(k).id : k \in Positions}
    /\ \A k \in Positions :
         LET n == At(k)
         IN /\ n.id \in DOMAIN map <=> n.operator /= "None"
            /\ n.operator = "Relu" =>
                 (map[n.id][1] /= None /\ map[n.id][2] = None)
            /\ n.operator \in {"Plus", "Mul", "Pow"} =>
                 (map[n.id][1] /= None /\ map[n.id][2] /= None)

C14_Witness ==
    /\ Len(nodes) = 3
    /\ At(0).operator = "None"
    /\ At(1).operator = "Relu"
    /\ At(2).operator = "Pow"
    /\ DOMAIN map = {1, 2}
    /\ map[1] = <<Some(0), None>>
    /\ map[2] = <<Some(1), Some(0)>>

(* C15: the graph is acyclic by construction: every operand id in an edge   *)
(* record refers to a node of the arena and is strictly smaller than the id *)
(* the record is keyed by.                                                  *)
C15_OperandsAreOlder ==
    \A id \in DOMAIN map :
        \A k \in Operands(id) : k \in Positions /\ At(k).id < id /\ k < id

C15_Witness ==
    /\ Len(nodes) = 3
    /\ DOMAIN map = {1, 2}
    /\ map[1] = <<Some(0), Some(0)>>
    /\ map[2] = <<Some(1), Some(0)>>

---------------------------------------------------------------------------
\* the size of the graph: its nodes and its edges
GraphSize ==
    Len(nodes) + Cardinality({<<id, i>> \in (DOMAIN map) \X {1, 2} : map[id][i] /= None})

(* C16: backward always runs to completion on a finite graph: on every      *)
(* non-empty graph built by the primitives the deque eventually becomes     *)
(* empty and backward returns, after a number of dequeues bounded by the    *)
(* size of the graph.                                                       *)
C16_RunsToCompletion ==
    /\ [](ret.call = "backwards" => Len(log) <= GraphSize)
    /\ (pc = "loop") ~> (pc = "idle" /\ deque = <<>>)

---------------------------------------------------------------------------
(* C17: if the edge record of a node that backward processes has an arity   *)
(* that does not match the node's operator tag, backward fails immediately  *)
(* with a MalformedEdgeRecord error instead of continuing the traversal:    *)
(* no run gets past the visited test and the fetch of the children with     *)
(* such a node.                                                             *)
C17_MalformedRecordFails ==
    ret.call = "backwards" =>
        \A id \in DOMAIN map : Mismatched(id) => TimesProcessed(id) = 0

(* C18: the assertion y > x of get_child_nodes never fails during backward: *)
(* every two-operand edge record the traversal meets has a left operand     *)
(* strictly smaller than its right operand.                                 *)
C18_AssertionHolds ==
    (pc = "loop" /\ deque /= <<>>) =>
        LET id == Head(deque)
        IN (id \notin visited /\ id \in DOMAIN map
              /\ map[id][1] /= None /\ map[id][2] /= None) =>
            Unwrap(map[id][1]) < Unwrap(map[id][2])

(* C19: a node's id equals its zero-based position in the arena that holds  *)
(* it, so that indexing the arena by an id yields the node with that id,    *)
(* after any sequence of node creations, also when more than one arena is   *)
(* built in the same process.                                               *)
C19_IdIsPosition == \A k \in Positions : At(k).id = k

(* C20: the output node that connect returns for a Neuron of n >= 1 weights *)
(* connected to n inputs has the bias, every weight node and every input    *)
(* node among its ancestors through edge records, and a backward pass       *)
(* started at the output processes all n product nodes.                     *)
C20_OutputReachesAll ==
    Len(nodes) = 3 * CountIn + 3 =>
        /\ Bias \in Ancestors(Output)
        /\ \A i \in 1 .. CountIn :
             /\ Weights[i] \in Ancestors(Output)
             /\ Inputs[i] \in Ancestors(Output)
             /\ FirstRunReturned => TimesProcessed(Products[i]) = 1

====
